---- MODULE Spec2Model ----
(***************************************************************************)
(* Model of the STM32L562E-DK virtual I/O driver (vio_STM32L562E-DK.c):    *)
(* the IP address to ASCII conversions ip4_2a / ip6_2a, the shared         *)
(* conversion buffer ip_ascii, the LCD mutex mid_mutLCD and the calls      *)
(* vioPrint / vioSetIPv4 / vioSetIPv6 that write to the display, the text  *)
(* console displayString / displayScrollVertical on the display areas of   *)
(* vioInit, and of the two threads of the Blinky demo (Blinky.c).          *)
(*                                                                         *)
(* Text is a sequence of one-character strings.  A C character buffer is a *)
(* function from its indices 0..size-1 to characters; NUL is the           *)
(* terminator.                                                             *)
(***************************************************************************)
EXTENDS Integers, Sequences, FiniteSets, TLC

VARIABLES
  ip6_addr,     \* ip6_2a call under test: the bytes of the object ip6_addr points to
  buf_len,      \* ip6_2a call under test: the buf_len argument
  ip_ascii,     \* static char ip_ascii[40]
  fmt,          \* ip6_2a call under test: the locals of the call (pc, i, j, nmax, idx, v16)
  readPast,     \* ip6_2a call under test: a byte beyond the ip6_addr object was read
  vioAddrIPv4,  \* vioAddrIPv4[VIO_IPV4_ADDRESS_NUM]
  vioAddrIPv6,  \* vioAddrIPv6[VIO_IPV6_ADDRESS_NUM]
  vioPrintMem,  \* vioPrintMem[VIO_PRINTMEM_NUM]
  mid_mutLCD,   \* owner of the LCD mutex (0: free)
  gui,          \* font and text colour of the GUI library
  thr,          \* per thread: the call it is in and its position
  addr4,     \* ip4_2a call under test: the bytes addr4 points to
  ip4_pc,       \* ip4_2a call under test: "call" before the call, "ret" after it
  pb,           \* Blinky: the level BSP_PB_GetState(BUTTON_USER) reads (1: pressed)
  vioSignalIn,  \* uint32_t vioSignalIn
  vioSignalOut, \* uint32_t vioSignalOut
  thrFlags,     \* Blinky: the thread flags of thrLED
  active_flag,  \* Blinky: active_flag of thrLED
  last,         \* Blinky: last of thrButton
  blinky,       \* Blinky: the line thrLED is at and the delays left of both threads
  detected,     \* Blinky: the number of presses thrButton has detected
  lcdIdx,       \* LCD console: the index idx of the display area written to
  display,      \* LCD console: display[idx]
  pixels,       \* LCD console: what each pixel row of the LCD shows in the area's columns
  scrollCalls   \* LCD console: calls of displayScrollVertical in the last loop iteration

vars == <<ip6_addr, buf_len, ip_ascii, fmt, readPast,
          vioAddrIPv4, vioAddrIPv6, vioPrintMem, mid_mutLCD, gui, thr,
          addr4, ip4_pc,
          pb, vioSignalIn, vioSignalOut, thrFlags, active_flag, last, blinky, detected,
          lcdIdx, display, pixels, scrollCalls>>

\* the variables of the ip4_2a call under test
Ip4Vars == <<addr4, ip4_pc>>

\* no ip4_2a call is under test
Ip4Idle == addr4 = <<>> /\ ip4_pc = "none"

\* the variables of the Blinky demo
BlinkyVars == <<pb, vioSignalIn, vioSignalOut, thrFlags, active_flag, last, blinky, detected>>

\* the Blinky threads have not been created
BlinkyIdle ==
  /\ pb = 0
  /\ vioSignalIn = 0
  /\ vioSignalOut = 0
  /\ thrFlags = 0
  /\ active_flag = 0
  /\ last = 0
  /\ blinky = [pcLED |-> "none", dLED |-> 0, dButton |-> 0]
  /\ detected = 0

\* the variables of the LCD console
LcdVars == <<lcdIdx, display, pixels, scrollCalls>>

\* no display area is followed
LcdIdle ==
  /\ lcdIdx = -1
  /\ display = <<>>
  /\ pixels = <<>>
  /\ scrollCalls = 0

(***************************************************************************)
(* Bounds.                                                                 *)
(***************************************************************************)
\* number of rows of sample hextets the addresses under test are built from
NumStyles == 3

(***************************************************************************)
(* Program constants.                                                      *)
(***************************************************************************)
IP_ASCII_SIZE == 40
IP6_BUF_MIN == 40
IP4_BUF_MIN == 16
VIO_IPV4_ADDRESS_NUM == 2
VIO_IPV6_ADDRESS_NUM == 2
VIO_PRINT_MAX_SIZE == 64
VIO_PRINTMEM_NUM == 4
vioLevelNone == 0
vioLevelHeading == 1
vioLevelMessage == 2
vioLevelError == 3

NUL == "NUL"

(***************************************************************************)
(* C character buffers and sprintf.                                        *)
(***************************************************************************)
\* buf[j..] = s, indices outside the buffer are not stored
Put(buf, j, s) ==
  [k \in DOMAIN buf |-> IF k >= j /\ k < j + Len(s) THEN s[k - j + 1] ELSE buf[k]]

\* the C string held by a buffer from index k: the characters before the first NUL
RECURSIVE CStrFrom(_, _)
CStrFrom(buf, k) ==
  IF k \notin DOMAIN buf \/ buf[k] = NUL THEN <<>>
  ELSE <<buf[k]>> \o CStrFrom(buf, k + 1)

CStr(buf) == CStrFrom(buf, 0)

\* buf[k] as read by the code; the calls never read outside the buffer (wmax stays below
\* its size), so the value given for an index outside it is never used
BufAt(buf, k) == IF k \in DOMAIN buf THEN buf[k] ELSE NUL

HexDigit == <<"0", "1", "2", "3", "4", "5", "6", "7",
              "8", "9", "a", "b", "c", "d", "e", "f">>

\* mutant: the hextet is passed as a signed 16-bit value, which %x prints sign-extended
sprintf_x_signed(v) ==
  IF v >= 32768
  THEN <<"f", "f", "f", "f", HexDigit[(v \div 4096) + 1], HexDigit[((v \div 256) % 16) + 1],
         HexDigit[((v \div 16) % 16) + 1], HexDigit[(v % 16) + 1]>>
  ELSE IF v < 16 THEN <<HexDigit[v + 1]>>
  ELSE IF v < 256 THEN <<HexDigit[(v \div 16) + 1], HexDigit[(v % 16) + 1]>>
  ELSE IF v < 4096 THEN <<HexDigit[(v \div 256) + 1], HexDigit[((v \div 16) % 16) + 1],
                          HexDigit[(v % 16) + 1]>>
  ELSE <<HexDigit[(v \div 4096) + 1], HexDigit[((v \div 256) % 16) + 1],
         HexDigit[((v \div 16) % 16) + 1], HexDigit[(v % 16) + 1]>>

\* mutant: every leading zero digit is dropped, the last one too
RECURSIVE sprintf_x_strip(_)
sprintf_x_strip(v) ==
  IF v = 0 THEN <<>>
  ELSE sprintf_x_strip(v \div 16) \o <<HexDigit[(v % 16) + 1]>>

\* printf conversion %x of a hextet: lowercase digits, no leading zeros, "0" for 0
RECURSIVE sprintf_x(_)
sprintf_x(v) ==
  IF v < 16 THEN <<HexDigit[v + 1]>>
  ELSE sprintf_x(v \div 16) \o <<HexDigit[(v % 16) + 1]>>

(***************************************************************************)
(* ip6_2a (lines 98-152).  The call is a sequence of steps, one per access *)
(* to the output buffer; loc holds the locals of the call:                 *)
(*   pc    the line the call is at ("ret": returned)                       *)
(*   i, j, nmax, idx, v16   the C locals                                   *)
(*   wmax  the highest buffer index written so far (-1: none)              *)
(***************************************************************************)
\* mutant: the low byte is taken first
ReadHextets_le(mem) ==
  [k \in 0..7 |-> ((mem[2 * k + 2] * 256) % 65536) + mem[2 * k + 1]]

\* v16[i >> 1] = (uint16_t)(ip6_addr[i] << 8) | ip6_addr[i+1], mem indexed from 1
ReadHextets(mem) ==
  [k \in 0..7 |-> ((mem[2 * k + 1] * 256) % 65536) + mem[2 * k + 2]]

\* the inner loop of the scan: the last index of the zero run that starts at i
RECURSIVE RunEnd(_, _)
RunEnd(v, j) ==
  IF j < 8 - 1 /\ v[j + 1] = 0 THEN RunEnd(v, j + 1) ELSE j

\* mutant: a later run of the same length replaces the remembered one
RECURSIVE FindRun_last(_, _, _, _)
FindRun_last(v, i, nmax, idx) ==
  IF ~(i < 8 - 1) THEN [idx |-> idx, nmax |-> nmax]
  ELSE IF v[i] # 0 THEN FindRun_last(v, i + 1, nmax, idx)
  ELSE LET j == RunEnd(v, i) IN
       IF i = j THEN FindRun_last(v, i + 1, nmax, idx)
       ELSE IF (j - i + 1) >= nmax THEN FindRun_last(v, j + 1, j - i + 1, i)
       ELSE FindRun_last(v, j + 1, nmax, idx)

\* mutant: a single zero hextet counts as a run
RECURSIVE FindRun_single(_, _, _, _)
FindRun_single(v, i, nmax, idx) ==
  IF ~(i < 8 - 1) THEN [idx |-> idx, nmax |-> nmax]
  ELSE IF v[i] # 0 THEN FindRun_single(v, i + 1, nmax, idx)
  ELSE LET j == RunEnd(v, i) IN
       IF (j - i) >= nmax THEN FindRun_single(v, j + 1, j - i + 1, i)
       ELSE FindRun_single(v, j + 1, nmax, idx)

\* the scan for the largest block of consecutive zero hextets, from index i
RECURSIVE FindRun(_, _, _, _)
FindRun(v, i, nmax, idx) ==
  IF ~(i < 8 - 1) THEN [idx |-> idx, nmax |-> nmax]
  ELSE IF v[i] # 0 THEN FindRun(v, i + 1, nmax, idx)
  ELSE LET j == RunEnd(v, i) IN
       IF i = j THEN FindRun(v, i + 1, nmax, idx)
       ELSE IF (j - i) >= nmax THEN FindRun(v, j + 1, j - i + 1, i)
       ELSE FindRun(v, j + 1, nmax, idx)

Max(a, b) == IF a >= b THEN a ELSE b

ZeroHextets == [k \in 0..7 |-> 0]

\* mutant: the buffer length is not checked
ip6_entry_nocheck(mem, buf, blen) ==
  LET v == ReadHextets(mem)
      r == FindRun(v, 0, 0, 8)
  IN  [loc |-> [pc |-> IF 0 < r.idx THEN "l134" ELSE "l140", i |-> 0, j |-> 0,
                nmax |-> r.nmax, idx |-> r.idx, v16 |-> v, wmax |-> -1],
       buf |-> buf]

\* lines 102-133: the length check, the hextets, the scan, i = j = 0
ip6_entry(mem, buf, blen) ==
  IF blen < IP6_BUF_MIN
  THEN [loc |-> [pc |-> "ret", i |-> 0, j |-> 0, nmax |-> 0, idx |-> 8,
                 v16 |-> ZeroHextets, wmax |-> -1],
        buf |-> buf]
  ELSE LET v == ReadHextets(mem)
           r == FindRun(v, 0, 0, 8)
       IN  [loc |-> [pc |-> IF 0 < r.idx THEN "l134" ELSE "l140", i |-> 0, j |-> 0,
                     nmax |-> r.nmax, idx |-> r.idx, v16 |-> v, wmax |-> -1],
            buf |-> buf]

\* lines 134-137: j += sprintf(&buf[j], "%x", v16[i]); if (++i == idx) break;
ip6_l134(loc, buf) ==
  LET s == sprintf_x(loc.v16[loc.i]) IN
  [loc |-> [loc EXCEPT !.j = loc.j + Len(s), !.i = loc.i + 1,
                       !.wmax = Max(loc.wmax, loc.j + Len(s)),
                       !.pc = IF loc.i + 1 = loc.idx THEN "l140" ELSE "l138"],
   buf |-> Put(buf, loc.j, s \o <<NUL>>)]

\* line 138: buf[j++] = ':'; and the loop test i < idx
ip6_l138(loc, buf) ==
  [loc |-> [loc EXCEPT !.j = loc.j + 1, !.wmax = Max(loc.wmax, loc.j),
                       !.pc = IF loc.i < loc.idx THEN "l134" ELSE "l140"],
   buf |-> Put(buf, loc.j, <<":">>)]

\* lines 140-143: if (i < 8) { buf[j++] = ':'; i += nmax; and the loop test i < 8
ip6_l140(loc, buf) ==
  IF loc.i < 8
  THEN [loc |-> [loc EXCEPT !.j = loc.j + 1, !.i = loc.i + loc.nmax,
                            !.wmax = Max(loc.wmax, loc.j),
                            !.pc = IF loc.i + loc.nmax < 8 THEN "l144" ELSE "l146"],
        buf |-> Put(buf, loc.j, <<":">>)]
  ELSE [loc |-> [loc EXCEPT !.pc = "l151"], buf |-> buf]

\* mutant: every hextet of the tail is preceded by two colons
ip6_l144_colons(loc, buf) ==
  LET s == <<":", ":">> \o sprintf_x(loc.v16[loc.i]) IN
  [loc |-> [loc EXCEPT !.j = loc.j + Len(s), !.i = loc.i + 1,
                       !.wmax = Max(loc.wmax, loc.j + Len(s)),
                       !.pc = IF loc.i + 1 < 8 THEN "l144" ELSE "l146"],
   buf |-> Put(buf, loc.j, s \o <<NUL>>)]

\* line 144: j += sprintf(&buf[j], ":%x", v16[i]); i++
ip6_l144(loc, buf) ==
  LET s == <<":">> \o sprintf_x(loc.v16[loc.i]) IN
  [loc |-> [loc EXCEPT !.j = loc.j + Len(s), !.i = loc.i + 1,
                       !.wmax = Max(loc.wmax, loc.j + Len(s)),
                       !.pc = IF loc.i + 1 < 8 THEN "l144" ELSE "l146"],
   buf |-> Put(buf, loc.j, s \o <<NUL>>)]

\* mutant: the test of the last character is dropped with its colon
ip6_l146_skip(loc, buf) ==
  [loc |-> [loc EXCEPT !.pc = "l151"], buf |-> buf]

\* line 146: if (buf[j-1] == ':')
ip6_l146(loc, buf) ==
  [loc |-> [loc EXCEPT !.pc = IF BufAt(buf, loc.j - 1) = ":" THEN "l147" ELSE "l151"],
   buf |-> buf]

\* line 147: buf[j++] = ':'
ip6_l147(loc, buf) ==
  [loc |-> [loc EXCEPT !.j = loc.j + 1, !.wmax = Max(loc.wmax, loc.j), !.pc = "l151"],
   buf |-> Put(buf, loc.j, <<":">>)]

\* line 151: buf[j] = 0
ip6_l151(loc, buf) ==
  [loc |-> [loc EXCEPT !.wmax = Max(loc.wmax, loc.j), !.pc = "ret"],
   buf |-> Put(buf, loc.j, <<NUL>>)]

\* one step of a call that has passed its entry
ip6_step(loc, buf) ==
  CASE loc.pc = "l134" -> ip6_l134(loc, buf)
    [] loc.pc = "l138" -> ip6_l138(loc, buf)
    [] loc.pc = "l140" -> ip6_l140(loc, buf)
    [] loc.pc = "l144" -> ip6_l144(loc, buf)
    [] loc.pc = "l146" -> ip6_l146(loc, buf)
    [] loc.pc = "l147" -> ip6_l147(loc, buf)
    [] loc.pc = "l151" -> ip6_l151(loc, buf)

RECURSIVE ip6_run(_, _)
ip6_run(loc, buf) ==
  IF loc.pc = "ret" THEN [loc |-> loc, buf |-> buf]
  ELSE LET n == ip6_step(loc, buf) IN ip6_run(n.loc, n.buf)

\* the whole call ip6_2a(mem, buf, blen) run without interruption
ip6_2a(mem, buf, blen) ==
  LET e == ip6_entry(mem, buf, blen) IN ip6_run(e.loc, e.buf)

\* the address bytes ip6_2a reads, as offsets from ip6_addr (lines 102-109)
ip6_reads(blen) == IF blen < IP6_BUF_MIN THEN {} ELSE 0..15

(***************************************************************************)
(* The addresses under test: every choice of the hextets that are zero,    *)
(* the other hextets taken from one of the first NumStyles rows of         *)
(* nonzero sample hextets (as byte pairs, high byte first).                *)
(***************************************************************************)
Styles ==
  << << <<255, 255>>, <<255, 255>>, <<255, 255>>, <<255, 255>>,
        <<255, 255>>, <<255, 255>>, <<255, 255>>, <<255, 255>> >>,
     << <<0, 1>>, <<10, 0>>, <<0, 160>>, <<1, 35>>,
        <<255, 255>>, <<0, 16>>, <<254, 128>>, <<32, 1>> >>,
     << <<0, 1>>, <<0, 1>>, <<0, 1>>, <<0, 1>>,
        <<0, 1>>, <<0, 1>>, <<0, 1>>, <<0, 1>> >>,
     << <<32, 1>>, <<13, 184>>, <<0, 15>>, <<1, 0>>,
        <<0, 255>>, <<16, 0>>, <<171, 205>>, <<0, 9>> >>,
     << <<128, 0>>, <<0, 128>>, <<15, 255>>, <<0, 10>>,
        <<1, 1>>, <<240, 0>>, <<0, 2>>, <<18, 52>> >> >>

\* the address whose hextets z (numbered from 1) are zero, the others of row st
AddrOf(z, st) ==
  [k \in 1..16 |-> IF ((k + 1) \div 2) \in z THEN 0
                   ELSE Styles[st][(k + 1) \div 2][((k - 1) % 2) + 1]]

Addrs16 == {AddrOf(z, st) : z \in SUBSET (1..8), st \in 1..NumStyles}

\* what the buffer may hold before a call
FreshBuf == [k \in 0..(IP_ASCII_SIZE - 1) |-> NUL]

\* the text of ffff:ffff:ffff:ffff:ffff:ffff:ffff:ffff left by an earlier call
FullBuf ==
  [k \in 0..(IP_ASCII_SIZE - 1) |->
     IF k = IP_ASCII_SIZE - 1 THEN NUL ELSE IF k % 5 = 4 THEN ":" ELSE "f"]

StaleBufs == {FreshBuf, FullBuf}

NoCall == [pc |-> "call", i |-> 0, j |-> 0, nmax |-> 0, idx |-> 8,
           v16 |-> ZeroHextets, wmax |-> -1]

(***************************************************************************)
(* The call of ip6_2a under test: Call_ip6_2a runs the whole function on   *)
(* the address object ip6_addr and the buffer ip_ascii.  A read beyond the *)
(* address object yields whatever byte lies there.                         *)
(***************************************************************************)
OtherVarsIdle ==
  /\ vioAddrIPv4 = [k \in 0..(VIO_IPV4_ADDRESS_NUM - 1) |-> <<0, 0, 0, 0>>]
  /\ vioAddrIPv6 = [k \in 0..(VIO_IPV6_ADDRESS_NUM - 1) |-> [b \in 1..16 |-> 0]]
  /\ vioPrintMem = [k \in 0..(VIO_PRINTMEM_NUM - 1) |-> <<>>]
  /\ mid_mutLCD = 0
  /\ gui = [font |-> "default", color |-> "default"]
  /\ thr = <<>>

\* every 16-byte address of the sample, a buffer of the required 40 bytes
InitFmt ==
  /\ ip6_addr \in Addrs16
  /\ buf_len = IP_ASCII_SIZE
  /\ ip_ascii \in StaleBufs
  /\ fmt = NoCall
  /\ readPast = FALSE
  /\ OtherVarsIdle
  /\ Ip4Idle
  /\ BlinkyIdle
  /\ LcdIdle

\* address objects of 16 and of 15 bytes, buffers of 40 and of 39 bytes
InitCall ==
  /\ ip6_addr \in Addrs16 \cup {SubSeq(a, 1, 15) : a \in Addrs16}
  /\ buf_len \in {IP_ASCII_SIZE - 1, IP_ASCII_SIZE}
  /\ ip_ascii \in StaleBufs
  /\ fmt = NoCall
  /\ readPast = FALSE
  /\ OtherVarsIdle
  /\ Ip4Idle
  /\ BlinkyIdle
  /\ LcdIdle

Call_ip6_2a ==
  /\ fmt.pc = "call"
  /\ \E beyond \in (IF Len(ip6_addr) < 16 THEN {0, 255} ELSE {0}) :
       LET mem == [k \in 1..16 |-> IF k <= Len(ip6_addr) THEN ip6_addr[k] ELSE beyond]
           r == ip6_2a(mem, ip_ascii, buf_len)
       IN  /\ fmt' = r.loc
           /\ ip_ascii' = r.buf
           /\ readPast' = (\E k \in ip6_reads(buf_len) : k >= Len(ip6_addr))
  /\ UNCHANGED <<ip6_addr, buf_len, vioAddrIPv4, vioAddrIPv6, vioPrintMem,
                 mid_mutLCD, gui, thr, Ip4Vars, BlinkyVars, LcdVars>>

NextFmt == Call_ip6_2a

SpecFmt == InitFmt /\ [][NextFmt]_vars

SpecCall == InitCall /\ [][NextFmt]_vars

(***************************************************************************)
(* Reference definitions for the properties of ip6_2a: the hextets of the  *)
(* address, its zero runs, the canonical rendering, a parser of the text.  *)
(***************************************************************************)
Done == fmt.pc = "ret"

Formatted == Done /\ buf_len >= IP6_BUF_MIN /\ Len(ip6_addr) = 16

Text == CStr(ip_ascii)

Hextet(k) == ip6_addr[2 * k + 1] * 256 + ip6_addr[2 * k + 2]

\* hextets s..s+n-1 are a maximal run of n >= 2 zero hextets
IsZeroRun(s, n) ==
  /\ n >= 2
  /\ s + n <= 8
  /\ \A k \in s..(s + n - 1) : Hextet(k) = 0
  /\ (s = 0 \/ Hextet(s - 1) # 0)
  /\ (s + n = 8 \/ Hextet(s + n) # 0)

Runs == {r \in (0..7) \X (2..8) : IsZeroRun(r[1], r[2])}

\* r is the longest run, the earliest of the longest
IsBest(r) ==
  /\ r \in Runs
  /\ \A q \in Runs : q[2] < r[2] \/ (q[2] = r[2] /\ q[1] >= r[1])

BestRun == CHOOSE r \in Runs : IsBest(r)

\* lowercase hex without leading zeros: the four digits with the leading zeros removed
RefHex(v) ==
  LET d == <<HexDigit[(v \div 4096) + 1], HexDigit[((v \div 256) % 16) + 1],
             HexDigit[((v \div 16) % 16) + 1], HexDigit[(v % 16) + 1]>>
      lead == IF v >= 4096 THEN 0 ELSE IF v >= 256 THEN 1 ELSE IF v >= 16 THEN 2 ELSE 3
  IN  SubSeq(d, lead + 1, 4)

\* hextets a..b rendered and joined by ':'
RECURSIVE RefJoin(_, _)
RefJoin(a, b) ==
  IF a > b THEN <<>>
  ELSE IF a = b THEN RefHex(Hextet(a))
  ELSE RefHex(Hextet(a)) \o <<":">> \o RefJoin(a + 1, b)

\* the groups of a text between its ':' separators
RECURSIVE SplitFrom(_, _, _)
SplitFrom(t, k, cur) ==
  IF k > Len(t) THEN <<cur>>
  ELSE IF t[k] = ":" THEN <<cur>> \o SplitFrom(t, k + 1, <<>>)
  ELSE SplitFrom(t, k + 1, Append(cur, t[k]))

Split(t) == SplitFrom(t, 1, <<>>)

\* the groups of a side of "::" (an empty side has none)
Groups(t) == IF t = <<>> THEN <<>> ELSE Split(t)

DigitVal(c) == IF \E d \in 1..16 : HexDigit[d] = c
               THEN (CHOOSE d \in 1..16 : HexDigit[d] = c) - 1 ELSE -1

\* the value of a group of 1 to 4 hex digits, -1 for anything else
RECURSIVE ParseHexFrom(_, _, _)
ParseHexFrom(g, k, acc) ==
  IF k > Len(g) THEN acc
  ELSE IF DigitVal(g[k]) < 0 THEN -1
  ELSE ParseHexFrom(g, k + 1, acc * 16 + DigitVal(g[k]))

ParseHex(g) == IF Len(g) < 1 \/ Len(g) > 4 THEN -1 ELSE ParseHexFrom(g, 1, 0)

\* the positions p with t[p] = t[p+1] = ':'
DoubleColons(t) == {p \in 1..(Len(t) - 1) : t[p] = ":" /\ t[p + 1] = ":"}

\* the 8 hextets a text stands for: "::" stands for the zero hextets missing to 8 groups
ParseHextets(t) ==
  IF DoubleColons(t) = {}
  THEN [k \in 1..Len(Split(t)) |-> ParseHex(Split(t)[k])]
  ELSE LET p == CHOOSE q \in DoubleColons(t) : \A o \in DoubleColons(t) : q <= o
           l == Groups(SubSeq(t, 1, p - 1))
           r == Groups(SubSeq(t, p + 2, Len(t)))
       IN  [k \in 1..Len(l) |-> ParseHex(l[k])]
           \o [k \in 1..(8 - Len(l) - Len(r)) |-> 0]
           \o [k \in 1..Len(r) |-> ParseHex(r[k])]

\* the 16 bytes of 8 hextets
ParseBytes(t) ==
  LET h == ParseHextets(t) IN
  [k \in 1..(2 * Len(h)) |->
     IF k % 2 = 1 THEN h[(k + 1) \div 2] \div 256 ELSE h[(k + 1) \div 2] % 256]

\* the number of groups "0" in a text
ZeroGroups(t) == Cardinality({k \in 1..Len(Split(t)) : Split(t)[k] = <<"0">>})

\* C1: the run ip6_2a compresses (idx, nmax) is the longest maximal run of at least two
\* consecutive zero hextets, and of several longest runs the one that starts first
C1_LongestRunFirstOnTie ==
  (Formatted /\ Runs # {}) => IsBest(<<fmt.idx, fmt.nmax>>)

\* two runs of the same, longest, length, and the first was taken
C1_Witness ==
  /\ Formatted
  /\ \E r \in Runs : r[1] > fmt.idx /\ r[2] = fmt.nmax
  /\ IsBest(<<fmt.idx, fmt.nmax>>)

\* C2: with a qualifying run at s of length n the text is hextets 0..s-1 in lowercase hex
\* without leading zeros joined by ':', then "::", then hextets s+n..7 the same way
C2_CompressedText ==
  (Formatted /\ Runs # {}) =>
     Text = RefJoin(0, BestRun[1] - 1) \o <<":", ":">> \o RefJoin(BestRun[1] + BestRun[2], 7)

\* a run in the middle, a hextet with leading zero digits before it
C2_Witness ==
  /\ Formatted
  /\ Runs # {}
  /\ BestRun[1] > 0
  /\ BestRun[1] + BestRun[2] < 8
  /\ Hextet(0) = 1
  /\ Text = RefJoin(0, BestRun[1] - 1) \o <<":", ":">> \o RefJoin(BestRun[1] + BestRun[2], 7)

EndsWithTwoColons(t) ==
  /\ Len(t) >= 2
  /\ t[Len(t)] = ":"
  /\ t[Len(t) - 1] = ":"
  /\ (Len(t) >= 3 => t[Len(t) - 2] # ":")

\* C3: when the compressed run reaches hextet 7 the text ends with exactly two colons, and
\* the all-zero address is rendered as "::"
C3_TrailingDoubleColon ==
  /\ (Formatted /\ Runs # {} /\ BestRun[1] + BestRun[2] = 8) => EndsWithTwoColons(Text)
  /\ (Formatted /\ \A k \in 0..7 : Hextet(k) = 0) => Text = <<":", ":">>

\* a run that ends the address after a nonzero hextet, written over an earlier text
C3_Witness ==
  /\ Formatted
  /\ Runs # {}
  /\ BestRun[1] > 0
  /\ BestRun[1] + BestRun[2] = 8
  /\ EndsWithTwoColons(Text)

\* C4: with no run of two or more zero hextets all 8 hextets are written, joined by
\* exactly 7 single ':', and the text has no "::"
C4_NoSingleZeroCompression ==
  (Formatted /\ Runs = {}) =>
     /\ Text = RefJoin(0, 7)
     /\ Cardinality({p \in 1..Len(Text) : Text[p] = ":"}) = 7
     /\ DoubleColons(Text) = {}

\* isolated zero hextets, the last hextet among them
C4_Witness ==
  /\ Formatted
  /\ Runs = {}
  /\ Hextet(7) = 0
  /\ \E k \in 0..5 : Hextet(k) = 0
  /\ Len(Split(Text)) = 8

\* C5: the text has at most one "::", and every zero hextet outside the compressed run is
\* written as a group "0"
C5_AtMostOneCompression ==
  Formatted =>
     /\ Cardinality(DoubleColons(Text)) <= 1
     /\ ZeroGroups(Text) =
          Cardinality({k \in 0..7 : Hextet(k) = 0
                         /\ (Runs = {} \/ k < BestRun[1] \/ k >= BestRun[1] + BestRun[2])})

\* three qualifying runs, one compressed
C5_Witness ==
  /\ Formatted
  /\ Cardinality(Runs) = 3
  /\ Cardinality(DoubleColons(Text)) = 1
  /\ ZeroGroups(Text) >= 4

\* C6: parsing the text, with "::" expanded to the zero hextets missing to 8 groups,
\* gives back the 16 bytes of the address
C6_RoundTrip ==
  Formatted => ParseBytes(Text) = ip6_addr

\* an address with a compressed run, an explicit zero and nonzero hextets
C6_Witness ==
  /\ Formatted
  /\ Runs # {}
  /\ ZeroGroups(Text) >= 1
  /\ \E k \in 0..7 : Hextet(k) = 1
  /\ ParseBytes(Text) = ip6_addr

\* C7: the text is at most 39 characters and no index beyond 39 is written, the
\* terminator included
C7_FitsBuffer ==
  Formatted => (Len(Text) <= IP_ASCII_SIZE - 1 /\ fmt.wmax <= IP_ASCII_SIZE - 1)

\* the longest text: the terminator is written at index 39
C7_Witness ==
  /\ Formatted
  /\ Len(Text) = IP_ASCII_SIZE - 1
  /\ fmt.wmax = IP_ASCII_SIZE - 1

\* the canonical text of the 16-byte address ip6_addr
RefText ==
  IF Runs = {} THEN RefJoin(0, 7)
  ELSE RefJoin(0, BestRun[1] - 1) \o <<":", ":">> \o RefJoin(BestRun[1] + BestRun[2], 7)

\* the call returned without an access to the address or to the buffer
Rejected == Done /\ fmt.wmax = -1 /\ ~readPast /\ ip_ascii \in StaleBufs

DecDigit == <<"0", "1", "2", "3", "4", "5", "6", "7", "8", "9">>

\* mutant: the conversion %03d
sprintf_d_pad(v) ==
  <<DecDigit[(v \div 100) + 1], DecDigit[((v \div 10) % 10) + 1], DecDigit[(v % 10) + 1]>>

\* printf conversion %d of a byte
RECURSIVE sprintf_d(_)
sprintf_d(v) ==
  IF v < 10 THEN <<DecDigit[v + 1]>>
  ELSE sprintf_d(v \div 10) \o <<DecDigit[(v % 10) + 1]>>

\* the buffer after ip4_2a(ip4_addr, buf, blen); ip4_addr indexed from 1
ip4_2a(ip4_addr, buf, blen) ==
  IF blen < IP4_BUF_MIN THEN buf
  ELSE Put(buf, 0, sprintf_d(ip4_addr[1]) \o <<".">> \o sprintf_d(ip4_addr[2]) \o <<".">>
                   \o sprintf_d(ip4_addr[3]) \o <<".">> \o sprintf_d(ip4_addr[4]) \o <<NUL>>)

(***************************************************************************)
(* The call of ip4_2a under test: Call_ip4_2a runs the function on the     *)
(* address addr4 and the buffer ip_ascii, as vioSetIPv4 does.  The      *)
(* addresses under test have every byte value 0..255 at one position and   *)
(* a sample byte of one, two or three digits at the other positions, or    *)
(* sample bytes at all positions.                                          *)
(***************************************************************************)
ByteSamples == {0, 10, 255}

Addrs4 ==
  {[k \in 1..4 |-> IF k = p THEN v ELSE s] : p \in 1..4, v \in 0..255, s \in ByteSamples}
  \cup [1..4 -> ByteSamples]
  \cup {<<192, 168, 1, 1>>}

\* a buffer of the required 16 bytes or of sizeof(ip_ascii), holding older text
InitIp4 ==
  /\ addr4 \in Addrs4
  /\ ip4_pc = "call"
  /\ buf_len \in {IP4_BUF_MIN, IP_ASCII_SIZE}
  /\ ip_ascii \in StaleBufs
  /\ ip6_addr = <<>>
  /\ fmt = NoCall
  /\ readPast = FALSE
  /\ OtherVarsIdle
  /\ BlinkyIdle
  /\ LcdIdle

Call_ip4_2a ==
  /\ ip4_pc = "call"
  /\ ip_ascii' = ip4_2a(addr4, ip_ascii, buf_len)
  /\ ip4_pc' = "ret"
  /\ UNCHANGED <<addr4, ip6_addr, buf_len, fmt, readPast, vioAddrIPv4, vioAddrIPv6,
                 vioPrintMem, mid_mutLCD, gui, thr, BlinkyVars, LcdVars>>

NextIp4 == Call_ip4_2a

SpecIp4 == InitIp4 /\ [][NextIp4]_vars

(***************************************************************************)
(* Properties of ip4_2a: the text is read back as four decimal numbers.    *)
(***************************************************************************)
\* the text ip4_2a left in the buffer
Text4 == CStr(ip_ascii)

\* the parts of t between its dots
RECURSIVE DotSplitFrom(_, _, _)
DotSplitFrom(t, k, cur) ==
  IF k > Len(t) THEN <<cur>>
  ELSE IF t[k] = "." THEN <<cur>> \o DotSplitFrom(t, k + 1, <<>>)
  ELSE DotSplitFrom(t, k + 1, Append(cur, t[k]))

DotGroups(t) == DotSplitFrom(t, 1, <<>>)

IsDecDigit(c) == \E d \in 1..10 : DecDigit[d] = c

\* the value of a decimal digit
DecVal(c) == (CHOOSE d \in 1..10 : DecDigit[d] = c) - 1

\* the number a string of decimal digits denotes
RECURSIVE ParseDecFrom(_, _, _)
ParseDecFrom(g, k, acc) ==
  IF k > Len(g) THEN acc ELSE ParseDecFrom(g, k + 1, 10 * acc + DecVal(g[k]))

ParseDec(g) == ParseDecFrom(g, 1, 0)

\* g is an unsigned decimal number without padding
IsPlainDecimal(g) ==
  /\ Len(g) >= 1
  /\ \A k \in 1..Len(g) : IsDecDigit(g[k])
  /\ Len(g) > 1 => g[1] # "0"

\* C11: after ip4_2a the buffer holds a terminated text of at most 15 characters made
\* of exactly four unpadded unsigned decimal numbers separated by single dots, the
\* numbers being the four bytes of the address in order; 192.168.1.1 for [192,168,1,1]
C11_DottedDecimal ==
  ip4_pc = "ret" =>
    /\ Len(Text4) <= IP4_BUF_MIN - 1
    /\ ip_ascii[Len(Text4)] = NUL
    /\ Len(DotGroups(Text4)) = 4
    /\ \A k \in 1..4 :
         /\ IsPlainDecimal(DotGroups(Text4)[k])
         /\ ParseDec(DotGroups(Text4)[k]) = addr4[k]
    /\ addr4 = <<192, 168, 1, 1>> =>
         Text4 = <<"1", "9", "2", ".", "1", "6", "8", ".", "1", ".", "1">>

\* 192.168.1.1 written over the older text, and an address of the full 15 characters
C11_Witness ==
  /\ ip4_pc = "ret"
  /\ ip_ascii[IP_ASCII_SIZE - 2] = "f"
  /\ \/ addr4 = <<192, 168, 1, 1>> /\ Len(Text4) = 11
     \/ addr4 = <<255, 255, 255, 255>> /\ Len(Text4) = 15

(***************************************************************************)
(* Threads calling vioPrint, vioSetIPv4 and vioSetIPv6 after vioInit.      *)
(* thr[t] is the call thread t is in:                                      *)
(*   op     "idle", "print", "v4" or "v6"                                  *)
(*   pc     the line the call is at                                        *)
(*   id     the id or level argument                                       *)
(*   arg    the address or the formatted text argument                     *)
(*   loc    the locals of the call's ip6_2a                                *)
(*   i      the index of displayString                                     *)
(*   shown  the characters the call's displayString has drawn from         *)
(*          ip_ascii or vioPrintMem                                        *)
(* A step is one access to shared memory (a sprintf counts as one), the    *)
(* copies of a whole address included.  The mutex is the one osMutexNew    *)
(* created in vioInit.  displayString is followed character by character;  *)
(* the cursor of display[] is not part of the state.                       *)
(***************************************************************************)
\* number of threads that call into the driver
NumThreads == 3

Threads == 1..NumThreads

\* the function a thread calls: thread 1 vioSetIPv6, thread 2 vioSetIPv4, thread 3
\* vioPrint, thread 4 vioSetIPv6 again, and so on
Calls(t) == <<"v6", "v4", "print">>[((t - 1) % 3) + 1]

CR == "CR"
LF == "LF"

\* the arguments the threads call with
CallAddrs6 == {AddrOf(2..7, 2)}
CallAddrs4 == {<<10, 0, 0, 1>>}
CallIds == {0, VIO_IPV6_ADDRESS_NUM}
CallLevels == {vioLevelHeading, vioLevelError + 1}
CallTexts == {<<"A", LF>>}

IdleThr == [op |-> "idle", pc |-> "idle", id |-> 0, arg |-> <<>>, loc |-> NoCall,
            i |-> 0, shown |-> <<>>]

Init ==
  /\ ip6_addr = <<>>
  /\ buf_len = 0
  /\ fmt = NoCall
  /\ readPast = FALSE
  /\ ip_ascii = FreshBuf
  /\ vioAddrIPv4 = [k \in 0..(VIO_IPV4_ADDRESS_NUM - 1) |-> <<0, 0, 0, 0>>]
  /\ vioAddrIPv6 = [k \in 0..(VIO_IPV6_ADDRESS_NUM - 1) |-> [b \in 1..16 |-> 0]]
  /\ vioPrintMem = [k \in 0..(VIO_PRINTMEM_NUM - 1) |-> <<>>]
  /\ mid_mutLCD = 0
  /\ gui = [font |-> "default", color |-> "default"]
  /\ thr = [t \in Threads |-> IdleThr]
  /\ Ip4Idle
  /\ BlinkyIdle
  /\ LcdIdle

\* the variables of the calls under test, which the threads leave alone
UnitVars == <<ip6_addr, buf_len, fmt, readPast, Ip4Vars, BlinkyVars, LcdVars>>

\* osMutexAcquire(mid_mutLCD, osWaitForever): the caller waits until the mutex is free
osMutexAcquire(t, next) ==
  /\ mid_mutLCD = 0
  /\ mid_mutLCD' = t
  /\ thr' = [thr EXCEPT ![t].pc = next]

\* mutant: the call goes on without the mutex
osMutexAcquire_skip(t, next) ==
  /\ mid_mutLCD' = mid_mutLCD
  /\ thr' = [thr EXCEPT ![t].pc = next]

\* osMutexRelease(mid_mutLCD), after which the call returns
osMutexRelease(t) ==
  /\ mid_mutLCD' = 0
  /\ thr' = [thr EXCEPT ![t] = IdleThr]

\* one iteration of displayString's loop on the string whose character at i is ch: the
\* terminator ends the call, any other character is drawn
displayString(t, ch, next, keep) ==
  IF ch = NUL
  THEN thr' = [thr EXCEPT ![t].pc = next, ![t].i = 0]
  ELSE thr' = [thr EXCEPT ![t].i = (thr[t].i + 1) % 256,
                          ![t].shown = IF keep THEN Append(thr[t].shown, ch) ELSE thr[t].shown]

\* str[i] of the literal "\r\n"
CrLfAt(i) == IF i = 0 THEN CR ELSE IF i = 1 THEN LF ELSE NUL

(***************************************************************************)
(* vioSetIPv6 (lines 630-654).                                             *)
(***************************************************************************)
\* lines 637-641: the index check and vioAddrIPv6[index] = addrIPv6
vioSetIPv6_call(t) ==
  /\ thr[t].op = "idle" /\ Calls(t) = "v6"
  /\ \E id \in CallIds, addr \in CallAddrs6 :
       IF id >= VIO_IPV6_ADDRESS_NUM
       THEN UNCHANGED <<vioAddrIPv6, thr>>
       ELSE /\ vioAddrIPv6' = [vioAddrIPv6 EXCEPT ![id] = addr]
            /\ thr' = [thr EXCEPT ![t] = [IdleThr EXCEPT !.op = "v6", !.pc = "l645",
                                                         !.id = id, !.arg = addr]]
  /\ UNCHANGED <<UnitVars, ip_ascii, vioAddrIPv4, vioPrintMem, mid_mutLCD, gui>>

\* line 645: ip6_2a(&vioAddrIPv6[index], ip_ascii, sizeof(ip_ascii)), up to its first write
vioSetIPv6_ip6_2a(t) ==
  /\ thr[t].op = "v6" /\ thr[t].pc = "l645"
  /\ LET r == ip6_entry(vioAddrIPv6[thr[t].id], ip_ascii, IP_ASCII_SIZE) IN
       /\ ip_ascii' = r.buf
       /\ thr' = [thr EXCEPT ![t].loc = r.loc,
                             ![t].pc = IF r.loc.pc = "ret" THEN "l647" ELSE "ip6_2a"]
  /\ UNCHANGED <<UnitVars, vioAddrIPv4, vioAddrIPv6, vioPrintMem, mid_mutLCD, gui>>

\* line 645: the next write of ip6_2a to ip_ascii
vioSetIPv6_ip6_step(t) ==
  /\ thr[t].op = "v6" /\ thr[t].pc = "ip6_2a"
  /\ LET r == ip6_step(thr[t].loc, ip_ascii) IN
       /\ ip_ascii' = r.buf
       /\ thr' = [thr EXCEPT ![t].loc = r.loc,
                             ![t].pc = IF r.loc.pc = "ret" THEN "l647" ELSE "ip6_2a"]
  /\ UNCHANGED <<UnitVars, vioAddrIPv4, vioAddrIPv6, vioPrintMem, mid_mutLCD, gui>>

\* line 647
vioSetIPv6_acquire(t) ==
  /\ thr[t].op = "v6" /\ thr[t].pc = "l647"
  /\ osMutexAcquire(t, "l648")
  /\ UNCHANGED <<UnitVars, ip_ascii, vioAddrIPv4, vioAddrIPv6, vioPrintMem, gui>>

\* lines 648-649: GUI_SetFont(&Font12); GUI_SetTextColor(GUI_COLOR_WHITE)
vioSetIPv6_font(t) ==
  /\ thr[t].op = "v6" /\ thr[t].pc = "l648"
  /\ gui' = [font |-> "Font12", color |-> "WHITE"]
  /\ thr' = [thr EXCEPT ![t].pc = "l650"]
  /\ UNCHANGED <<UnitVars, ip_ascii, vioAddrIPv4, vioAddrIPv6, vioPrintMem, mid_mutLCD>>

\* line 650: displayString(vioLevelNone, "\r\n")
vioSetIPv6_crlf(t) ==
  /\ thr[t].op = "v6" /\ thr[t].pc = "l650"
  /\ displayString(t, CrLfAt(thr[t].i), "l651", FALSE)
  /\ UNCHANGED <<UnitVars, ip_ascii, vioAddrIPv4, vioAddrIPv6, vioPrintMem, mid_mutLCD, gui>>

\* line 651: displayString(vioLevelNone, ip_ascii)
vioSetIPv6_show(t) ==
  /\ thr[t].op = "v6" /\ thr[t].pc = "l651"
  /\ displayString(t, BufAt(ip_ascii, thr[t].i), "l652", TRUE)
  /\ UNCHANGED <<UnitVars, ip_ascii, vioAddrIPv4, vioAddrIPv6, vioPrintMem, mid_mutLCD, gui>>

\* line 652
vioSetIPv6_release(t) ==
  /\ thr[t].op = "v6" /\ thr[t].pc = "l652"
  /\ osMutexRelease(t)
  /\ UNCHANGED <<UnitVars, ip_ascii, vioAddrIPv4, vioAddrIPv6, vioPrintMem, gui>>

(***************************************************************************)
(* vioSetIPv4 (lines 579-603).                                             *)
(***************************************************************************)
\* lines 586-590: the index check and vioAddrIPv4[index] = addrIPv4
vioSetIPv4_call(t) ==
  /\ thr[t].op = "idle" /\ Calls(t) = "v4"
  /\ \E id \in CallIds, addr \in CallAddrs4 :
       IF id >= VIO_IPV4_ADDRESS_NUM
       THEN UNCHANGED <<vioAddrIPv4, thr>>
       ELSE /\ vioAddrIPv4' = [vioAddrIPv4 EXCEPT ![id] = addr]
            /\ thr' = [thr EXCEPT ![t] = [IdleThr EXCEPT !.op = "v4", !.pc = "l594",
                                                         !.id = id, !.arg = addr]]
  /\ UNCHANGED <<UnitVars, ip_ascii, vioAddrIPv6, vioPrintMem, mid_mutLCD, gui>>

\* line 594: ip4_2a(&vioAddrIPv4[index], ip_ascii, sizeof(ip_ascii))
vioSetIPv4_ip4_2a(t) ==
  /\ thr[t].op = "v4" /\ thr[t].pc = "l594"
  /\ ip_ascii' = ip4_2a(vioAddrIPv4[thr[t].id], ip_ascii, IP_ASCII_SIZE)
  /\ thr' = [thr EXCEPT ![t].pc = "l596"]
  /\ UNCHANGED <<UnitVars, vioAddrIPv4, vioAddrIPv6, vioPrintMem, mid_mutLCD, gui>>

\* mutant: the display is written without the mutex
vioSetIPv4_noacquire(t) ==
  /\ thr[t].op = "v4" /\ thr[t].pc = "l596"
  /\ osMutexAcquire_skip(t, "l597")
  /\ UNCHANGED <<UnitVars, ip_ascii, vioAddrIPv4, vioAddrIPv6, vioPrintMem, gui>>

\* line 596
vioSetIPv4_acquire(t) ==
  /\ thr[t].op = "v4" /\ thr[t].pc = "l596"
  /\ osMutexAcquire(t, "l597")
  /\ UNCHANGED <<UnitVars, ip_ascii, vioAddrIPv4, vioAddrIPv6, vioPrintMem, gui>>

\* lines 597-598: GUI_SetFont(&Font12); GUI_SetTextColor(GUI_COLOR_WHITE)
vioSetIPv4_font(t) ==
  /\ thr[t].op = "v4" /\ thr[t].pc = "l597"
  /\ gui' = [font |-> "Font12", color |-> "WHITE"]
  /\ thr' = [thr EXCEPT ![t].pc = "l599"]
  /\ UNCHANGED <<UnitVars, ip_ascii, vioAddrIPv4, vioAddrIPv6, vioPrintMem, mid_mutLCD>>

\* line 599: displayString(vioLevelNone, "\r\n")
vioSetIPv4_crlf(t) ==
  /\ thr[t].op = "v4" /\ thr[t].pc = "l599"
  /\ displayString(t, CrLfAt(thr[t].i), "l600", FALSE)
  /\ UNCHANGED <<UnitVars, ip_ascii, vioAddrIPv4, vioAddrIPv6, vioPrintMem, mid_mutLCD, gui>>

\* line 600: displayString(vioLevelNone, ip_ascii)
vioSetIPv4_show(t) ==
  /\ thr[t].op = "v4" /\ thr[t].pc = "l600"
  /\ displayString(t, BufAt(ip_ascii, thr[t].i), "l601", TRUE)
  /\ UNCHANGED <<UnitVars, ip_ascii, vioAddrIPv4, vioAddrIPv6, vioPrintMem, mid_mutLCD, gui>>

\* line 601
vioSetIPv4_release(t) ==
  /\ thr[t].op = "v4" /\ thr[t].pc = "l601"
  /\ osMutexRelease(t)
  /\ UNCHANGED <<UnitVars, ip_ascii, vioAddrIPv4, vioAddrIPv6, vioPrintMem, gui>>

(***************************************************************************)
(* vioPrint (lines 368-421).                                               *)
(***************************************************************************)
\* vsnprintf(vioPrintMem[level], sizeof(vioPrintMem[level]), ...) of a text: cut to size - 1
vsnprintf(text) ==
  IF Len(text) > VIO_PRINT_MAX_SIZE - 1 THEN SubSeq(text, 1, VIO_PRINT_MAX_SIZE - 1) ELSE text

\* vioPrintMem[level][i]
PrintMemAt(level, i) ==
  IF i < Len(vioPrintMem[level]) THEN vioPrintMem[level][i + 1] ELSE NUL

\* the switch of lines 393-414: the font and colour of a level
LevelGui(level) ==
  CASE level = vioLevelNone    -> [font |-> "Font12", color |-> "WHITE"]
    [] level = vioLevelHeading -> [font |-> "Font16", color |-> "GREEN"]
    [] level = vioLevelMessage -> [font |-> "Font12", color |-> "BLUE"]
    [] level = vioLevelError   -> [font |-> "Font12", color |-> "RED"]

\* lines 376-388: the level checks and the vsnprintf into vioPrintMem[level]
vioPrint_call(t) ==
  /\ thr[t].op = "idle" /\ Calls(t) = "print"
  /\ \E level \in CallLevels, text \in CallTexts :
       IF level > vioLevelError \/ level > VIO_PRINTMEM_NUM
       THEN UNCHANGED <<vioPrintMem, thr>>
       ELSE /\ vioPrintMem' = [vioPrintMem EXCEPT ![level] = vsnprintf(text)]
            /\ thr' = [thr EXCEPT ![t] = [IdleThr EXCEPT !.op = "print", !.pc = "l392",
                                                         !.id = level, !.arg = text]]
  /\ UNCHANGED <<UnitVars, ip_ascii, vioAddrIPv4, vioAddrIPv6, mid_mutLCD, gui>>

\* line 392
vioPrint_acquire(t) ==
  /\ thr[t].op = "print" /\ thr[t].pc = "l392"
  /\ osMutexAcquire(t, "l393")
  /\ UNCHANGED <<UnitVars, ip_ascii, vioAddrIPv4, vioAddrIPv6, vioPrintMem, gui>>

\* lines 393-411: GUI_SetFont and GUI_SetTextColor of the level's case
vioPrint_font(t) ==
  /\ thr[t].op = "print" /\ thr[t].pc = "l393"
  /\ gui' = LevelGui(thr[t].id)
  /\ thr' = [thr EXCEPT ![t].pc = "l397"]
  /\ UNCHANGED <<UnitVars, ip_ascii, vioAddrIPv4, vioAddrIPv6, vioPrintMem, mid_mutLCD>>

\* lines 397-412: displayString(level, vioPrintMem[level])
vioPrint_show(t) ==
  /\ thr[t].op = "print" /\ thr[t].pc = "l397"
  /\ displayString(t, PrintMemAt(thr[t].id, thr[t].i), "l415", TRUE)
  /\ UNCHANGED <<UnitVars, ip_ascii, vioAddrIPv4, vioAddrIPv6, vioPrintMem, mid_mutLCD, gui>>

\* lines 415-416: GUI_SetFont(&Font12); GUI_SetTextColor(GUI_COLOR_DARKBLUE)
vioPrint_reset(t) ==
  /\ thr[t].op = "print" /\ thr[t].pc = "l415"
  /\ gui' = [font |-> "Font12", color |-> "DARKBLUE"]
  /\ thr' = [thr EXCEPT ![t].pc = "l417"]
  /\ UNCHANGED <<UnitVars, ip_ascii, vioAddrIPv4, vioAddrIPv6, vioPrintMem, mid_mutLCD>>

\* lines 417-420
vioPrint_release(t) ==
  /\ thr[t].op = "print" /\ thr[t].pc = "l417"
  /\ osMutexRelease(t)
  /\ UNCHANGED <<UnitVars, ip_ascii, vioAddrIPv4, vioAddrIPv6, vioPrintMem, gui>>

Next ==
  \E t \in Threads :
    \/ vioSetIPv6_call(t)
    \/ vioSetIPv6_ip6_2a(t)
    \/ vioSetIPv6_ip6_step(t)
    \/ vioSetIPv6_acquire(t)
    \/ vioSetIPv6_font(t)
    \/ vioSetIPv6_crlf(t)
    \/ vioSetIPv6_show(t)
    \/ vioSetIPv6_release(t)
    \/ vioSetIPv4_call(t)
    \/ vioSetIPv4_ip4_2a(t)
    \/ vioSetIPv4_acquire(t)
    \/ vioSetIPv4_font(t)
    \/ vioSetIPv4_crlf(t)
    \/ vioSetIPv4_show(t)
    \/ vioSetIPv4_release(t)
    \/ vioPrint_call(t)
    \/ vioPrint_acquire(t)
    \/ vioPrint_font(t)
    \/ vioPrint_show(t)
    \/ vioPrint_reset(t)
    \/ vioPrint_release(t)

Spec == Init /\ [][Next]_vars

\* the steps of thread t between its osMutexAcquire and the return of its call; none of
\* them waits, so a scheduler that runs every ready thread takes them
HolderStep(t) ==
  \/ vioSetIPv6_font(t) \/ vioSetIPv6_crlf(t) \/ vioSetIPv6_show(t) \/ vioSetIPv6_release(t)
  \/ vioSetIPv4_font(t) \/ vioSetIPv4_crlf(t) \/ vioSetIPv4_show(t) \/ vioSetIPv4_release(t)
  \/ vioPrint_font(t) \/ vioPrint_show(t) \/ vioPrint_reset(t) \/ vioPrint_release(t)

FairSpec == Spec /\ \A t \in Threads : WF_vars(HolderStep(t))

(***************************************************************************)
(* Properties of the calls that write to the display.                      *)
(***************************************************************************)
\* the text of the address a call was given, formatted on its own
OwnText(t) ==
  IF thr[t].op = "v6" THEN CStr(ip6_2a(thr[t].arg, FreshBuf, IP_ASCII_SIZE).buf)
  ELSE CStr(ip4_2a(thr[t].arg, FreshBuf, IP_ASCII_SIZE))

\* the call has returned from displayString(vioLevelNone, ip_ascii)
Shown(t) ==
  \/ thr[t].op = "v6" /\ thr[t].pc = "l652"
  \/ thr[t].op = "v4" /\ thr[t].pc = "l601"

\* C9 as stated: under every interleaving the text a call of vioSetIPv4 / vioSetIPv6
\* hands to displayString is the complete formatting of the address that call was given
C9_CallShowsOwnAddress ==
  \A t \in Threads : Shown(t) => thr[t].shown = OwnText(t)

InDisplayString(t) == thr[t].pc \in {"l650", "l651", "l599", "l600", "l397"}

\* the lines from after osMutexAcquire up to osMutexRelease
HoldsLCD(t) ==
  thr[t].pc \in {"l648", "l650", "l651", "l652", "l597", "l599", "l600", "l601",
                 "l393", "l397", "l415", "l417"}

AtAcquire(t) == thr[t].pc \in {"l647", "l596", "l392"}

\* the font and colour the call set before its displayString
CallGui(t) ==
  IF thr[t].op = "print" THEN LevelGui(thr[t].id)
  ELSE [font |-> "Font12", color |-> "WHITE"]

LcdSerialized ==
  /\ \A t1, t2 \in Threads : t1 # t2 => ~(InDisplayString(t1) /\ InDisplayString(t2))
  /\ \A t \in Threads : HoldsLCD(t) <=> (mid_mutLCD = t)
  /\ \A t \in Threads : thr[t].op = "idle" => mid_mutLCD # t
  /\ \A t \in Threads : InDisplayString(t) => gui = CallGui(t)

MaxPresses == 3

vioBUTTON0 == 1
vioLED0 == 1
vioLED1 == 2
vioLEDon == 255
vioLEDoff == 0
\* 0xFFFFFFFD, written as the 32-bit two's complement value it is
osFlagsErrorResource == -3

\* a & b
RECURSIVE BitAnd(_, _)
BitAnd(a, b) ==
  IF a = 0 \/ b = 0 THEN 0
  ELSE 2 * BitAnd(a \div 2, b \div 2) + (IF a % 2 = 1 /\ b % 2 = 1 THEN 1 ELSE 0)

\* a | b
BitOr(a, b) == a + b - BitAnd(a, b)

\* a & ~b
BitClear(a, b) == a - BitAnd(a, b)

\* the ticks of 100 ms of osDelay(ms)
osDelay(ms) == ms \div 100

\* vioSignalOut after vioSetSignal(mask, signal)
vioSetSignal(out, mask, signal) == BitOr(BitClear(out, mask), BitAnd(mask, signal))

\* vioSignalIn after vioGetSignal(mask), the button read as level
vioGetSignal_in(in, mask, level) ==
  IF BitAnd(mask, vioBUTTON0) # 0
  THEN IF level = 1 THEN BitOr(in, vioBUTTON0) ELSE BitClear(in, vioBUTTON0)
  ELSE in

\* the value vioGetSignal(mask) returns
vioGetSignal(in, mask, level) == BitAnd(vioGetSignal_in(in, mask, level), mask)

\* osThreadFlagsWait(flags, osFlagsWaitAny, 0U): the thread flags before the call when
\* one of the awaited flags is set, which are then cleared; an error otherwise
osThreadFlagsWait(tf, flags) ==
  IF BitAnd(tf, flags) # 0
  THEN [ret |-> tf, tf |-> BitClear(tf, flags)]
  ELSE [ret |-> osFlagsErrorResource, tf |-> tf]

\* the thread flags after osThreadFlagsSet(tid, flags)
osThreadFlagsSet(tf, flags) == BitOr(tf, flags)

\* app_main has created both threads; the button is released or held down
InitBlinky ==
  /\ pb \in {0, 1}
  /\ vioSignalIn = 0
  /\ vioSignalOut = 0
  /\ thrFlags = 0
  /\ active_flag = 0
  /\ last = 0
  /\ blinky = [pcLED |-> "l49", dLED |-> 0, dButton |-> 0]
  /\ detected = 0
  /\ ip6_addr = <<>>
  /\ buf_len = 0
  /\ fmt = NoCall
  /\ readPast = FALSE
  /\ ip_ascii = FreshBuf
  /\ OtherVarsIdle
  /\ Ip4Idle
  /\ LcdIdle

DriverVars == <<ip6_addr, buf_len, ip_ascii, fmt, readPast, vioAddrIPv4, vioAddrIPv6,
                vioPrintMem, mid_mutLCD, gui, thr, Ip4Vars, LcdVars>>

\* thrLED lines 49-51: the poll of the flag
thrLED_l49 ==
  /\ blinky.pcLED = "l49" /\ blinky.dLED = 0
  /\ LET w == osThreadFlagsWait(thrFlags, 1)
     IN  /\ thrFlags' = w.tf
         /\ active_flag' = IF w.ret = 1 THEN (active_flag + 1) % 2 ELSE active_flag
  /\ blinky' = [blinky EXCEPT !.pcLED = "l53"]
  /\ UNCHANGED <<pb, vioSignalIn, vioSignalOut, last, detected, DriverVars>>

\* thrLED lines 53-56 and 62-63: the first half of the blink cycle
thrLED_l53 ==
  /\ blinky.pcLED = "l53"
  /\ IF active_flag = 1
     THEN /\ vioSignalOut' = vioSetSignal(vioSetSignal(vioSignalOut, vioLED0, vioLEDoff),
                                          vioLED1, vioLEDon)
          /\ blinky' = [blinky EXCEPT !.pcLED = "l57", !.dLED = osDelay(100)]
     ELSE /\ vioSignalOut' = vioSetSignal(vioSignalOut, vioLED0, vioLEDon)
          /\ blinky' = [blinky EXCEPT !.pcLED = "l64", !.dLED = osDelay(500)]
  /\ UNCHANGED <<pb, vioSignalIn, thrFlags, active_flag, last, detected, DriverVars>>

\* thrLED lines 57-59: the second half of the fast blink cycle
thrLED_l57 ==
  /\ blinky.pcLED = "l57" /\ blinky.dLED = 0
  /\ vioSignalOut' = vioSetSignal(vioSetSignal(vioSignalOut, vioLED0, vioLEDon),
                                  vioLED1, vioLEDoff)
  /\ blinky' = [blinky EXCEPT !.pcLED = "l49", !.dLED = osDelay(100)]
  /\ UNCHANGED <<pb, vioSignalIn, thrFlags, active_flag, last, detected, DriverVars>>

\* thrLED lines 64-65: the second half of the slow blink cycle
thrLED_l64 ==
  /\ blinky.pcLED = "l64" /\ blinky.dLED = 0
  /\ vioSignalOut' = vioSetSignal(vioSignalOut, vioLED0, vioLEDoff)
  /\ blinky' = [blinky EXCEPT !.pcLED = "l49", !.dLED = osDelay(500)]
  /\ UNCHANGED <<pb, vioSignalIn, thrFlags, active_flag, last, detected, DriverVars>>

\* thrButton lines 80-87: one sample of the button
thrButton_l80 ==
  /\ blinky.pcLED # "none" /\ blinky.dButton = 0
  /\ LET state == vioGetSignal(vioSignalIn, vioBUTTON0, pb)
     IN  /\ vioSignalIn' = vioGetSignal_in(vioSignalIn, vioBUTTON0, pb)
         /\ IF state # last
            THEN /\ thrFlags' = IF state = 1 THEN osThreadFlagsSet(thrFlags, 1) ELSE thrFlags
                 /\ detected' = IF state = 1 THEN detected + 1 ELSE detected
                 /\ last' = state
            ELSE UNCHANGED <<thrFlags, detected, last>>
  /\ blinky' = [blinky EXCEPT !.dButton = osDelay(100)]
  /\ UNCHANGED <<pb, vioSignalOut, active_flag, DriverVars>>

\* 100 ms pass while both threads are in osDelay
osTick ==
  /\ blinky.dLED > 0 /\ blinky.dButton > 0
  /\ blinky' = [blinky EXCEPT !.dLED = blinky.dLED - 1, !.dButton = blinky.dButton - 1]
  /\ UNCHANGED <<pb, vioSignalIn, vioSignalOut, thrFlags, active_flag, last, detected,
                 DriverVars>>

\* the USER button is pressed
Button_press ==
  /\ blinky.pcLED # "none" /\ pb = 0 /\ detected < MaxPresses
  /\ pb' = 1
  /\ UNCHANGED <<vioSignalIn, vioSignalOut, thrFlags, active_flag, last, blinky, detected,
                 DriverVars>>

\* the USER button is released
Button_release ==
  /\ blinky.pcLED # "none" /\ pb = 1
  /\ pb' = 0
  /\ UNCHANGED <<vioSignalIn, vioSignalOut, thrFlags, active_flag, last, blinky, detected,
                 DriverVars>>

NextBlinky ==
  \/ thrLED_l49
  \/ thrLED_l53
  \/ thrLED_l57
  \/ thrLED_l64
  \/ thrButton_l80
  \/ osTick
  \/ Button_press
  \/ Button_release

SpecBlinky == InitBlinky /\ [][NextBlinky]_vars

(***************************************************************************)
(* Properties of the Blinky demo.                                          *)
(***************************************************************************)
\* C12 as stated: every poll of the flag by thrLED leaves active_flag equal to the parity
\* of the number of presses thrButton has detected up to that poll: every detected
\* press toggles the blink mode exactly once, none is lost and none counted twice
C12_EveryPressTogglesOnce ==
  [][thrLED_l49 => active_flag' = detected' % 2]_vars

(***************************************************************************)
(* The LCD text console: the display areas vioInit sets up (lines 293-328) *)
(* and the loop of displayString (lines 199-228), one iteration per step.  *)
(* displayString and displayScrollVertical use display[idx] and the pixel  *)
(* rows yOrigin..yHeight-1 of that area only, and the areas do not         *)
(* overlap, so one area is followed at a time.  pixels[y] is what pixel    *)
(* row y shows in the columns xOrigin..xWidth-1: black, the orange of the  *)
(* layout, or scan line k >= 1 of the characters drawn there.  The font    *)
(* of GUI_DisplayChar is the one the callers select for the area (lines    *)
(* 395-412, 597, 648), whose height is fontHeight.                         *)
(***************************************************************************)
\* the size BSP_LCD_GetXSize / BSP_LCD_GetYSize report for the LCD of the board
XSize == 240
YSize == 240

\* a value stored in a uint16_t
U16(x) == x % 65536

GUI_COLOR_BLACK == 0
GUI_COLOR_ORANGE == -1
TextLine(k) == k

\* display[idx] as vioInit leaves it
vioInit_display(idx) ==
  IF idx = vioLevelHeading
  THEN [fontWidth |-> 11, fontHeight |-> 16, xOrigin |-> 3, xWidth |-> U16(XSize - 4),
        xPos |-> 3, yOrigin |-> 4, yHeight |-> U16(2 * 16 + 4), yPos |-> 4]
  ELSE IF idx = vioLevelNone
  THEN [fontWidth |-> 7, fontHeight |-> 12, xOrigin |-> 3, xWidth |-> U16(XSize - 4),
        xPos |-> 3, yOrigin |-> 40, yHeight |-> U16(2 * 12 + 40), yPos |-> 40]
  ELSE IF idx = vioLevelError
  THEN [fontWidth |-> 7, fontHeight |-> 12, xOrigin |-> 3, xWidth |-> U16(XSize - 4),
        xPos |-> 3, yOrigin |-> 68, yHeight |-> U16(4 * 12 + 68), yPos |-> 68]
  ELSE [fontWidth |-> 7, fontHeight |-> 12, xOrigin |-> 3, xWidth |-> U16(XSize - 4),
        xPos |-> 3, yOrigin |-> 120, yHeight |-> U16(9 * 12 + 120), yPos |-> 120]

\* the pixel rows after GUI_Clear and the layout of lines 332-351
vioInit_pixels ==
  [y \in 0..(YSize - 1) |->
     IF y \in {0, 1, 37, 38, 65, 66, 117, 118, YSize - 2, YSize - 1} THEN GUI_COLOR_ORANGE ELSE GUI_COLOR_BLACK]

\* GUI_DisplayChar(xPos, yPos, ch): the character covers fontHeight pixel rows
GUI_DisplayChar(d, pix) ==
  [y \in DOMAIN pix |->
     IF d.yPos <= y /\ y < d.yPos + d.fontHeight THEN TextLine(y - d.yPos + 1) ELSE pix[y]]

\* the pixel rows after displayScrollVertical(idx): the first loop copies row
\* y + fontHeight to row y for y going up from yOrigin, so that every row is read
\* before it is written; the second loop blackens the rows from where the first ended
displayScrollVertical(d, pix) ==
  [y \in DOMAIN pix |->
     IF d.yOrigin <= y /\ y < d.yHeight - d.fontHeight THEN pix[y + d.fontHeight]
     ELSE IF d.yOrigin <= y /\ y < d.yHeight THEN GUI_COLOR_BLACK
     ELSE pix[y]]

\* mutant: the bottom of the area is tested with > instead of >=
displayString_0A_gt(d, pix) ==
  LET y1 == U16(d.yPos + d.fontHeight)
  IN  IF y1 > d.yHeight
      THEN [d |-> [d EXCEPT !.yPos = U16(y1 - d.fontHeight)],
            pix |-> displayScrollVertical(d, pix), n |-> 1]
      ELSE [d |-> [d EXCEPT !.yPos = y1], pix |-> pix, n |-> 0]

\* lines 203-209: a line feed
displayString_0A(d, pix) ==
  LET y1 == U16(d.yPos + d.fontHeight)
  IN  IF y1 >= d.yHeight
      THEN [d |-> [d EXCEPT !.yPos = U16(y1 - d.fontHeight)],
            pix |-> displayScrollVertical(d, pix), n |-> 1]
      ELSE [d |-> [d EXCEPT !.yPos = y1], pix |-> pix, n |-> 0]

\* lines 210-212: a carriage return
displayString_0D(d, pix) ==
  [d |-> [d EXCEPT !.xPos = d.xOrigin], pix |-> pix, n |-> 0]

\* lines 213-225: any other character
displayString_default(d, pix) ==
  LET pix1 == GUI_DisplayChar(d, pix)
      x1 == U16(d.xPos + d.fontWidth)
      d1 == IF x1 >= d.xWidth
            THEN [d EXCEPT !.xPos = d.xOrigin, !.yPos = U16(d.yPos + d.fontHeight)]
            ELSE [d EXCEPT !.xPos = x1]
  IN  IF d1.yPos >= d1.yHeight
      THEN [d |-> [d1 EXCEPT !.yPos = U16(d1.yPos - d1.fontHeight)],
            pix |-> displayScrollVertical(d1, pix1), n |-> 1]
      ELSE [d |-> d1, pix |-> pix1, n |-> 0]

\* after vioInit, for each of the four display areas
InitLcd ==
  /\ lcdIdx \in {vioLevelNone, vioLevelHeading, vioLevelMessage, vioLevelError}
  /\ display = vioInit_display(lcdIdx)
  /\ pixels = vioInit_pixels
  /\ scrollCalls = 0
  /\ ip6_addr = <<>>
  /\ buf_len = 0
  /\ fmt = NoCall
  /\ readPast = FALSE
  /\ ip_ascii = FreshBuf
  /\ OtherVarsIdle
  /\ Ip4Idle
  /\ BlinkyIdle

NonLcdVars == <<ip6_addr, buf_len, ip_ascii, fmt, readPast, vioAddrIPv4, vioAddrIPv6,
                vioPrintMem, mid_mutLCD, gui, thr, Ip4Vars, BlinkyVars>>

\* one iteration of the loop of displayString, whose outcome is r
displayString_iteration(r) ==
  /\ lcdIdx >= 0
  /\ display' = r.d
  /\ pixels' = r.pix
  /\ scrollCalls' = r.n
  /\ UNCHANGED <<lcdIdx, NonLcdVars>>

\* the iteration for str[i] = 0x0A
displayString_LF == displayString_iteration(displayString_0A(display, pixels))

\* the iteration for str[i] = 0x0D
displayString_CR == displayString_iteration(displayString_0D(display, pixels))

\* the iteration for any other character
displayString_char == displayString_iteration(displayString_default(display, pixels))

NextLcd ==
  \/ displayString_LF
  \/ displayString_CR
  \/ displayString_char

SpecLcd == InitLcd /\ [][NextLcd]_vars

(***************************************************************************)
(* Properties of the LCD console.                                          *)
(***************************************************************************)
CursorInArea ==
  /\ display.xOrigin <= display.xPos /\ display.xPos < display.xWidth
  /\ display.yOrigin <= display.yPos /\ display.yPos < display.yHeight
  /\ (display.yPos - display.yOrigin) % display.fontHeight = 0

\* a line feed that would move yPos to or past yHeight
OverstepsLF ==
  /\ displayString_LF
  /\ display.yPos + display.fontHeight >= display.yHeight

\* a character in the last column that would move yPos to or past yHeight
OverstepsChar ==
  /\ displayString_char
  /\ display.xPos + display.fontWidth >= display.xWidth
  /\ display.yPos + display.fontHeight >= display.yHeight

\* the pixel rows of the area one text row further up, the last text row black, the
\* rest of the LCD as it was; a character just drawn is in the rows from..yHeight-1
ScrolledUp(from) ==
  [y \in 0..(YSize - 1) |->
     IF y < display.yOrigin \/ y >= display.yHeight THEN pixels[y]
     ELSE IF y >= display.yHeight - display.fontHeight THEN GUI_COLOR_BLACK
     ELSE IF y + display.fontHeight >= from
          THEN TextLine(y + display.fontHeight - from + 1)
          ELSE pixels[y + display.fontHeight]]

\* the iteration called displayScrollVertical once: the area is one text row further
\* up and the cursor in the last text row
ScrolledOnce(from) ==
  /\ scrollCalls' = 1
  /\ display'.yPos = display.yHeight - display.fontHeight
  /\ pixels' = ScrolledUp(from)

\* C13: the cursor is always inside its area, on a text row; an iteration that would
\* move yPos to or past yHeight calls displayScrollVertical once, which moves the
\* area's pixel rows up by one text row and blanks the last one, and leaves the cursor
\* in the last text row
C13_CursorStaysInArea ==
  /\ [](lcdIdx >= 0 => CursorInArea)
  /\ [][/\ OverstepsLF => ScrolledOnce(display.yHeight)
        /\ OverstepsChar => ScrolledOnce(display.yPos)]_vars

\* the message area after an iteration in its last text row made it scroll: the cursor
\* is in the first column of the last row, which is black, and the text of the last row
\* is now in the row above
C13_Witness ==
  /\ lcdIdx = vioLevelMessage
  /\ scrollCalls = 1
  /\ display.xPos = display.xOrigin
  /\ display.yPos = display.yHeight - display.fontHeight
  /\ pixels[display.yPos - 1] = TextLine(display.fontHeight)
  /\ pixels[display.yPos] = GUI_COLOR_BLACK
  /\ pixels[display.yOrigin] = GUI_COLOR_BLACK

====
